---- MODULE Spec2Model ----
(***************************************************************************)
(* EgzReader (src/src/lib.rs): a reader that sniffs the first 11 bytes of  *)
(* an underlying byte source, decides whether the stream is gzip, and then *)
(* forwards every read either to a replay reader (RawReader) or to a gzip  *)
(* decoder fed by a replay reader.                                         *)
(*                                                                         *)
(* A step of the model is one step of ReaderType::read between two calls   *)
(* of an external collaborator (the underlying source R, the decoder):     *)
(* pc is the position inside the call, "idle" between two calls.           *)
(***************************************************************************)
EXTENDS Integers, Sequences, FiniteSets

\* ---------------------------------------------------------------- bounds
\* Longest non-gzip input.
MaxLen == 13
\* Longest plaintext of the gzip inputs.
MaxPayload == 2
\* How many times the underlying source may raise an error.
MaxErrs == 1
\* Largest caller buffer; the caller passes buffers of 0, 1, 3 or MaxBuf bytes.
MaxBuf == 12
\* Largest request the decoder makes of its input.
MaxPull == 2

\* ------------------------------------------------------- program constants
\* let mut buf = [0; 11];  preread: [u8; 11]
SniffLen == 11
\* buf[..2] == [0x1f, 0x8b]
Magic0 == 31
Magic1 == 139
\* buf[2] <= 0x08
MaxMethod == 8

Min(a, b) == IF a <= b THEN a ELSE b

Take(s, n) == SubSeq(s, 1, Min(n, Len(s)))

\* s[from+1 .. from+n]
Slice(s, from, n) == SubSeq(s, from + 1, from + n)

\* [0; 11]
ZeroBuf == [i \in 1..SniffLen |-> 0]

\* ------------------------------------------------ decompression collaborator
\* flate2's GzDecoder is not part of the repository.  It is modelled by a
\* small member format with the shape of a gzip member: a 10-byte header
\* (magic 1F 8B, method 08, seven more bytes), a body, a trailer.  The body
\* is the payload length followed by the payload bytes each shifted by one
\* (so that decoding is not the identity); the trailer repeats the length,
\* as ISIZE does.
GzHeaderLen == 10

GzHeader == <<Magic0, Magic1, 8, 0, 0, 0, 0, 0, 0, 3>>

Enc(p) == (p + 1) % 256

Dec(e) == (e + 255) % 256

Compress(payload) ==
    GzHeader \o <<Len(payload)>> \o [i \in 1..Len(payload) |-> Enc(payload[i])]
             \o <<Len(payload)>>

\* What the decoder knows of the bytes s it has pulled so far.
DecHeaderKnown(s) == Len(s) >= GzHeaderLen

DecHeaderOK(s) ==
    /\ Len(s) >= GzHeaderLen
    /\ s[1] = Magic0 /\ s[2] = Magic1 /\ s[3] = 8

\* The announced payload length, once the byte after the header is there.
DecLenKnown(s) == DecHeaderOK(s) /\ Len(s) >= GzHeaderLen + 1

DecLen(s) == s[GzHeaderLen + 1]

\* The payload bytes decoded from s so far.
DecOutput(s) ==
    IF DecLenKnown(s)
    THEN [i \in 1..Min(DecLen(s), Len(s) - (GzHeaderLen + 1)) |->
              Dec(s[GzHeaderLen + 1 + i])]
    ELSE <<>>

\* The whole member, trailer included, has been pulled.
DecTrailerKnown(s) == DecLenKnown(s) /\ Len(s) >= GzHeaderLen + 2 + DecLen(s)

DecTrailerOK(s) == DecTrailerKnown(s) /\ s[GzHeaderLen + 2 + DecLen(s)] = DecLen(s)

\* The outcomes GzDecoder::read may give for a buffer of L bytes, having
\* pulled s, delivered dpos decoded bytes, and seen (eof) or not the end of
\* its input: an error, or the number of bytes returned.  Empty while the
\* decoder has to read more of its input first.
DecFail == [t |-> "err", n |-> 0]

DecGive(n) == [t |-> "ok", n |-> n]

DecResults(s, dpos, eof, L) ==
    LET avail == Len(DecOutput(s)) - dpos IN
    IF DecHeaderKnown(s) /\ ~DecHeaderOK(s) THEN {DecFail}
    ELSE IF L = 0 THEN {DecGive(0)}
    ELSE IF avail > 0 THEN {DecGive(Min(L, avail))}
    ELSE IF DecTrailerKnown(s) THEN (IF DecTrailerOK(s) THEN {DecGive(0)} ELSE {DecFail})
    ELSE IF eof THEN {DecFail}
    ELSE {}

\* ------------------------------------------------------------------ inputs
\* Non-gzip content: bytes that differ from place to place, so that a byte
\* lost, repeated or out of order shows.
Filler(i) == 64 + i

\* First three bytes of the streams that are not made by Compress.
Heads ==
    { <<Filler(1), Filler(2), Filler(3)>>,      \* plain text
      <<Magic0, Magic1, 9>>,                    \* method above 8
      <<Magic0, Magic1 + 1, 8>>,                \* wrong second magic byte
      <<Magic0 - 1, Magic1, 8>>,                \* wrong first magic byte
      <<Magic0, Magic1, 0>>,                    \* method below 8
      <<Magic0, Magic1, 8>> }                   \* gzip signature, garbage after

WithHead(h, n) == [i \in 1..n |-> IF i <= 3 THEN h[i] ELSE Filler(i)]

Payloads == UNION { [1..n -> {72, 105}] : n \in 0..MaxPayload }

Bases == { WithHead(h, MaxLen) : h \in Heads } \cup { Compress(p) : p \in Payloads }

\* Every prefix of every base stream, the empty stream included.
Inputs == { Take(b, n) : b \in Bases, n \in 0..(MaxLen + MaxPayload) }

BufLens == {0, 1, 3, MaxBuf}

PullLens == 1..MaxPull

\* ------------------------------------------------------------------- state
VARIABLES
    input,    \* the content of the underlying source
    srcPos,   \* how many bytes of it the source has yielded
    errs,     \* how many errors the source has raised
    state,    \* the variant of ReaderType: "Init", "Zero", "Raw", "Gz"
    rr,       \* the RawReader of Raw and of Gz: [preread, pos, size]
    pc,       \* "idle", "sniff" (in make_reader's loop), "read" (in a terminal branch)
    reqL,     \* buf.len() of the call in progress
    buf,      \* make_reader's buf
    nread,    \* make_reader's nread
    ucalls,   \* reads of the underlying source made by the call in progress
    pulled,   \* the bytes the decoder has read from its RawReader
    dpos,     \* how many decoded bytes the decoder has returned
    deof,     \* the decoder has seen its input end
    out,      \* the bytes returned to the caller so far
    ret,      \* the result of the last call that returned
    hist      \* what happened so far (history, not program state)

vars == <<input, srcPos, errs, state, rr, pc, reqL, buf, nread, ucalls,
          pulled, dpos, deof, out, ret, hist>>

NoRaw == [preread |-> ZeroBuf, pos |-> 0, size |-> 0]

\* ret.e: the error returned, "none" for Ok
NoRet == [t |-> "none", n |-> 0, via |-> "none", len |-> 0, e |-> "none"]

Returned(t, n, via) == [t |-> t, n |-> n, via |-> via, len |-> reqL, e |-> "none"]

\* Err(e) returned from the place `via`
Failed(e, via) == [t |-> "err", n |-> 0, via |-> via, len |-> reqL, e |-> e]

\* hist.calls: calls returned so far, counted 0, 1, 2 (2 = two or more);
\* hist.firstSrc: what the first read of the underlying source gave;
\* hist.sniffErr: the look-ahead met an error; hist.unit: every read of the
\* look-ahead returned exactly one byte; hist.classified: make_reader
\* returned a variant; hist.srcErr: the last error the source raised.
NoHist == [calls |-> 0, firstSrc |-> "none", sniffErr |-> FALSE,
           unit |-> TRUE, classified |-> FALSE, srcErr |-> "none"]

\* --------------------------------------------------------- underlying source
\* R::read(&mut b) with b.len() = m: the counts the source may return.  A
\* short read is allowed; 0 is returned only for an empty buffer or at the
\* end of the content.
SrcCounts(m) ==
    LET rem == Len(input) - srcPos IN
    IF m = 0 \/ rem = 0 THEN {0} ELSE 1..Min(m, rem)

SrcMayFail == errs < MaxErrs

\* The errors the source may raise.
SrcErrors == {"Interrupted", "Other"}

NoteSrc(h, what) == IF h.firstSrc = "none" THEN [h EXCEPT !.firstSrc = what] ELSE h

NoteErr(h, e) == [NoteSrc(h, "err") EXCEPT !.srcErr = e]

\* ------------------------------------------------------------------ RawReader
\* RawReader::new called with buf.len() for size instead of n
RawReader_new_full(preread, size) == [preread |-> preread, pos |-> 0, size |-> SniffLen]

\* RawReader::new
RawReader_new(preread, size) == [preread |-> preread, pos |-> 0, size |-> size]

\* the test `self.size <= self.pos + 1`: the last snapshot byte is skipped
RawFromSnapshot_early(r) == ~(r.size <= r.pos + 1)

\* the test `self.size < self.pos`: an exhausted snapshot is still served
RawFromSnapshot_strict(r) == ~(r.size < r.pos)

\* RawReader::read: the snapshot still has bytes to give
RawFromSnapshot(r) == ~(r.size <= r.pos)

\* (&self.preread[self.pos..self.size]).read(buf): the count copied
RawCopyCount(r, L) == Min(r.size - r.pos, L)

\* the copy taken from the start of the snapshot instead of from pos
RawCopyBytes_fromStart(r, L) == Slice(r.preread, 0, RawCopyCount(r, L))

\* the bytes copied
RawCopyBytes(r, L) == Slice(r.preread, r.pos, RawCopyCount(r, L))

\* `self.pos = n` written for `self.pos += n`
RawAdvance_assign(r, n) == [r EXCEPT !.pos = n]

\* self.pos += n
RawAdvance(r, n) == [r EXCEPT !.pos = r.pos + n]

\* GzReader::new passing 10, the header size, for the snapshot size
GzReader_new_header(preread) == RawReader_new(preread, GzHeaderLen)

\* GzReader::new passing 12 for the snapshot size, one past the array
GzReader_new_over(preread) == RawReader_new(preread, SniffLen + 1)

\* GzReader::new: the decoder's input is a RawReader over the whole snapshot
GzReader_new(preread) == RawReader_new(preread, SniffLen)

\* ----------------------------------------------------------------- ReaderType
\* the loop also ends at a short read, taken for the end of the stream
LoopDone_short(bytes, nr) ==
    bytes = 0 \/ SniffLen <= nr \/ bytes < SniffLen - (nr - bytes)

\* the exit test `buf.len() < nread`: the loop goes on with a full buffer
LoopDone_strict(bytes, nr) == bytes = 0 \/ SniffLen < nr

\* make_reader: the loop ends after a read of `bytes` bytes that brought the
\* total to nr
LoopDone(bytes, nr) == bytes = 0 \/ SniffLen <= nr

\* the gzip test with `buf[2] == 0x08`
IsGzip_method8(b, n) ==
    n = SniffLen /\ b[1] = Magic0 /\ b[2] = Magic1 /\ b[3] = MaxMethod

\* the gzip test without `n == 11`
IsGzip_anyLen(b, n) ==
    b[1] = Magic0 /\ b[2] = Magic1 /\ b[3] <= MaxMethod

\* the gzip test with `n > 11` ("more than 10 bytes" read as "more than 11")
IsGzip_longer(b, n) ==
    n > SniffLen /\ b[1] = Magic0 /\ b[2] = Magic1 /\ b[3] <= MaxMethod

\* make_reader: the gzip test
IsGzip(b, n) ==
    n = SniffLen /\ b[1] = Magic0 /\ b[2] = Magic1 /\ b[3] <= MaxMethod

\* make_reader without the `n == 0` case
Classify_noZero(b, n) == IF IsGzip(b, n) THEN "Gz" ELSE "Raw"

\* make_reader giving back Init when nothing was read
Classify_zeroInit(b, n) ==
    IF n = 0 THEN "Init"
    ELSE IF IsGzip(b, n) THEN "Gz"
    ELSE "Raw"

\* make_reader: the variant returned for n bytes in b
Classify(b, n) ==
    IF n = 0 THEN "Zero"
    ELSE IF IsGzip(b, n) THEN "Gz"
    ELSE "Raw"

\* make_reader: the RawReader the variant carries
ClassifyRaw(b, n) ==
    IF n = 0 THEN NoRaw
    ELSE IF IsGzip(b, n) THEN GzReader_new(b)
    ELSE RawReader_new(b, n)

\* read: let init = mem::replace(self, ReaderType::Zero)
Placeholder == "Zero"

\* make_reader / read: `?` returns the error of the source as it is
Propagate(e) == e

\* Zero taken for "not classified yet": the Init arm runs again
Arm_zeroIsInit(st) == IF st = "Zero" THEN "Init" ELSE st

\* read: the arm of `match self` taken for a variant
Arm(st) == st

\* A call returns: the bookkeeping of the result.
Finish(r, h) ==
    /\ pc' = "idle"
    /\ ret' = r
    /\ hist' = [h EXCEPT !.calls = Min(h.calls + 1, 2)]

\* EgzReader::read / ReaderType::read is entered with a buffer of L bytes.
Call(L) ==
    /\ pc = "idle"
    /\ reqL' = L
    /\ ucalls' = 0
    /\ IF Arm(state) = "Init"
       THEN /\ state' = Placeholder
            /\ pc' = "sniff"
            /\ buf' = ZeroBuf
            /\ nread' = 0
       ELSE /\ pc' = "read"
            /\ UNCHANGED <<state, buf, nread>>
    /\ UNCHANGED <<input, srcPos, errs, rr, pulled, dpos, deof, out, ret, hist>>

\* the error of reader.read is dropped and the loop goes on
SniffErr_swallow ==
    /\ pc = "sniff"
    /\ SrcMayFail
    /\ errs' = errs + 1
    /\ ucalls' = ucalls + 1
    /\ \E e \in SrcErrors : hist' = [NoteErr(hist, e) EXCEPT !.sniffErr = TRUE]
    /\ UNCHANGED <<input, srcPos, state, rr, pc, reqL, buf, nread, pulled, dpos,
                   deof, out, ret>>

\* make_reader: reader.read(&mut buf[nread..]) raises an error; `?` returns
\* it from read, after self was replaced.
SniffErr ==
    /\ pc = "sniff"
    /\ SrcMayFail
    /\ errs' = errs + 1
    /\ ucalls' = ucalls + 1
    /\ \E e \in SrcErrors :
         Finish(Failed(Propagate(e), "sniff"),
                [NoteErr(hist, e) EXCEPT !.sniffErr = TRUE])
    /\ UNCHANGED <<input, srcPos, state, rr, reqL, buf, nread, pulled, dpos, deof, out>>

\* make_reader: one turn of the loop whose read succeeds; when the loop ends,
\* the variant is decided and stored in self.
SniffStep ==
    /\ pc = "sniff"
    /\ \E k \in SrcCounts(SniffLen - nread) :
         LET nr == nread + k
             nb == [i \in 1..SniffLen |->
                        IF nread < i /\ i <= nr THEN input[srcPos + (i - nread)]
                        ELSE buf[i]]
             h  == [NoteSrc(hist, IF k = 0 THEN "zero" ELSE "data")
                        EXCEPT !.unit = hist.unit /\ k = 1]
         IN /\ srcPos' = srcPos + k
            /\ buf' = nb
            /\ nread' = nr
            /\ ucalls' = ucalls + 1
            /\ IF LoopDone(k, nr)
               THEN /\ state' = Classify(nb, nr)
                    /\ rr' = ClassifyRaw(nb, nr)
                    /\ pc' = "read"
                    /\ hist' = [h EXCEPT !.classified = TRUE]
               ELSE /\ hist' = h
                    /\ UNCHANGED <<state, rr, pc>>
    /\ UNCHANGED <<input, errs, reqL, pulled, dpos, deof, out, ret>>

\* ReaderType::Zero => Ok(0)
ReadZero ==
    /\ pc = "read"
    /\ Arm(state) = "Zero"
    /\ Finish(Returned("ok", 0, "zero"), hist)
    /\ UNCHANGED <<input, srcPos, errs, state, rr, reqL, buf, nread, ucalls,
                   pulled, dpos, deof, out>>

\* ReaderType::Raw(raw) => raw.read(buf), from the snapshot
ReadRawSnapshot ==
    /\ pc = "read"
    /\ Arm(state) = "Raw"
    /\ RawFromSnapshot(rr)
    /\ LET n == RawCopyCount(rr, reqL) IN
         /\ out' = out \o RawCopyBytes(rr, reqL)
         /\ rr' = RawAdvance(rr, n)
         /\ Finish(Returned("ok", n, "raw"), hist)
    /\ UNCHANGED <<input, srcPos, errs, state, reqL, buf, nread, ucalls,
                   pulled, dpos, deof>>

\* ReaderType::Raw(raw) => raw.read(buf), forwarded: self.reader.read(buf)
ReadRawForward ==
    /\ pc = "read"
    /\ Arm(state) = "Raw"
    /\ ~RawFromSnapshot(rr)
    /\ ucalls' = ucalls + 1
    /\ \/ /\ SrcMayFail
          /\ errs' = errs + 1
          /\ \E e \in SrcErrors : Finish(Failed(e, "raw"), NoteErr(hist, e))
          /\ UNCHANGED <<srcPos, out>>
       \/ \E k \in SrcCounts(reqL) :
            /\ srcPos' = srcPos + k
            /\ out' = out \o Slice(input, srcPos, k)
            /\ Finish(Returned("ok", k, "raw"),
                      NoteSrc(hist, IF k = 0 THEN "zero" ELSE "data"))
            /\ UNCHANGED errs
    /\ UNCHANGED <<input, state, rr, reqL, buf, nread, pulled, dpos, deof>>

\* ReaderType::Gz(gz) => gz.read(buf): the decoder reads m bytes of its
\* RawReader, which serves them from the snapshot.
GzPullSnapshot ==
    /\ pc = "read"
    /\ Arm(state) = "Gz"
    /\ ~deof
    /\ RawFromSnapshot(rr)
    /\ \E m \in PullLens :
         /\ pulled' = pulled \o RawCopyBytes(rr, m)
         /\ rr' = RawAdvance(rr, RawCopyCount(rr, m))
    /\ UNCHANGED <<input, srcPos, errs, state, pc, reqL, buf, nread, ucalls,
                   dpos, deof, out, ret, hist>>

\* The decoder reads m bytes of its RawReader, which forwards to the source;
\* an error of the source is returned by the decoder to the caller.
GzPullForward ==
    /\ pc = "read"
    /\ Arm(state) = "Gz"
    /\ ~deof
    /\ ~RawFromSnapshot(rr)
    /\ ucalls' = ucalls + 1
    /\ \/ /\ SrcMayFail
          /\ errs' = errs + 1
          /\ \E e \in SrcErrors : Finish(Failed(e, "gz"), NoteErr(hist, e))
          /\ UNCHANGED <<srcPos, pulled, deof>>
       \/ \E m \in PullLens : \E k \in SrcCounts(m) :
            /\ srcPos' = srcPos + k
            /\ pulled' = pulled \o Slice(input, srcPos, k)
            /\ deof' = (k = 0)
            /\ hist' = NoteSrc(hist, IF k = 0 THEN "zero" ELSE "data")
            /\ UNCHANGED <<errs, pc, ret>>
    /\ UNCHANGED <<input, state, rr, reqL, buf, nread, dpos, out>>

\* The decoder returns: decoded bytes, 0 at the end of the member, or a
\* decompression error.
GzReturn ==
    /\ pc = "read"
    /\ Arm(state) = "Gz"
    /\ \E r \in DecResults(pulled, dpos, deof, reqL) :
         IF r.t = "err"
         THEN /\ Finish(Failed("Decode", "dec"), hist)
              /\ UNCHANGED <<dpos, out>>
         ELSE /\ out' = out \o Slice(DecOutput(pulled), dpos, r.n)
              /\ dpos' = dpos + r.n
              /\ Finish(Returned("ok", r.n, "gz"), hist)
    /\ UNCHANGED <<input, srcPos, errs, state, rr, reqL, buf, nread, ucalls,
                   pulled, deof>>

\* EgzReader::new(r): Init(r), nothing read yet.
Init ==
    /\ input \in Inputs
    /\ srcPos = 0
    /\ errs = 0
    /\ state = "Init"
    /\ rr = NoRaw
    /\ pc = "idle"
    /\ reqL = 0
    /\ buf = ZeroBuf
    /\ nread = 0
    /\ ucalls = 0
    /\ pulled = <<>>
    /\ dpos = 0
    /\ deof = FALSE
    /\ out = <<>>
    /\ ret = NoRet
    /\ hist = NoHist

Next ==
    \/ \E L \in BufLens : Call(L)
    \/ SniffErr
    \/ SniffStep
    \/ ReadZero
    \/ ReadRawSnapshot
    \/ ReadRawForward
    \/ GzPullSnapshot
    \/ GzPullForward
    \/ GzReturn

Spec == Init /\ [][Next]_vars

\* ------------------------------------------------------------------ claims
\* The gzip test of the specification, on the content of the source.
GzipSignature(s) ==
    Len(s) >= 11 /\ s[1] = 31 /\ s[2] = 139 /\ s[3] <= 8

\* An input that is not empty and is not taken for a gzip member.
NonGzipInput(s) == Len(s) >= 1 /\ ~GzipSignature(s)

\* The variant the specification gives a content.
ExpectedVariant(s) ==
    IF Len(s) = 0 THEN "Zero" ELSE IF GzipSignature(s) THEN "Gz" ELSE "Raw"

\* The last call returned Ok(0).
ReturnedZero == pc = "idle" /\ ret.t = "ok" /\ ret.n = 0

\* C1 as stated: for a non-gzip input read through a look-ahead that met no
\* error, whatever the buffer sizes of the calls, the bytes returned up to a
\* call that returns 0 are the input.
C1_AnyBuffer ==
    (NonGzipInput(input) /\ ~hist.sniffErr /\ ReturnedZero) => out = input

\* C1, amended: for a non-gzip input read through a look-ahead that met no
\* error, with buffers of any sizes, the bytes returned up to the first call
\* that returns 0 for a buffer that is not empty are the input, byte for
\* byte and in order.
C1_RawRoundTrip ==
    (NonGzipInput(input) /\ ~hist.sniffErr /\ ReturnedZero /\ ret.len > 0)
        => out = input

C1_Witness ==
    /\ NonGzipInput(input) /\ Len(input) > SniffLen
    /\ ReturnedZero /\ ret.len > 0 /\ ret.via = "raw"
    /\ out = input

\* C2 as stated: after a call that failed in the look-ahead, the reader is
\* still Init.
C2_StillInitAfterError ==
    (pc = "idle" /\ ret.t = "err" /\ ret.via = "sniff") => state = "Init"

\* C3: when the first read of the source returns 0, the first call returns
\* 0 after that one read, the variant is Zero, and every later call returns
\* 0 without an error and without a read of the source.
C3_EmptyStaysZero ==
    hist.firstSrc = "zero" =>
        /\ pc # "sniff" => state = "Zero"
        /\ pc = "idle" => (ret.t = "ok" /\ ret.n = 0)
        /\ ucalls = (IF hist.calls = 0 \/ (hist.calls = 1 /\ pc = "idle") THEN 1 ELSE 0)
        /\ srcPos = 0
        /\ out = <<>>

C3_Witness ==
    /\ hist.firstSrc = "zero" /\ hist.calls = 2 /\ pc = "idle"
    /\ state = "Zero" /\ ret.t = "ok" /\ ret.n = 0 /\ ret.len > 0 /\ ucalls = 0

C5_ShortIsRaw ==
    (Len(input) < 11 /\ hist.classified) => state = "Raw"

\* C5, amended: an input of 1 to 10 bytes is classified Raw whatever its
\* content, and the first call, with a buffer at least as long as the
\* input, returns the whole input; an empty input is classified Zero.
C5_ShortInput ==
    hist.classified =>
        /\ Len(input) \in 1..10 =>
             /\ state = "Raw"
             /\ (pc = "idle" /\ hist.calls = 1 /\ ret.len >= Len(input)) =>
                    (ret.t = "ok" /\ ret.n = Len(input) /\ out = input)
        /\ Len(input) = 0 => state = "Zero"

C5_Witness ==
    /\ Len(input) = 10 /\ input[1] = 31 /\ input[2] = 139 /\ input[3] = 8
    /\ state = "Raw" /\ pc = "idle" /\ hist.calls = 1
    /\ ret.t = "ok" /\ ret.n = 10 /\ out = input

\* C6: for an input that is one gzip member, read through a look-ahead that
\* met no error, no call returns a decompression error, what has been
\* returned is always a prefix of the payload, and at a call that returns 0
\* for a buffer that is not empty it is the whole payload.
C6_GzipRoundTrip ==
    \A p \in Payloads :
        (input = Compress(p) /\ ~hist.sniffErr) =>
            /\ ret.via # "dec"
            /\ Len(out) <= Len(p) /\ out = Take(p, Len(out))
            /\ (ReturnedZero /\ ret.len > 0) => out = p

C6_Witness ==
    /\ input = Compress(<<72, 105>>)
    /\ ReturnedZero /\ ret.len > 0 /\ ret.via = "gz"
    /\ out = <<72, 105>>

\* C7: in the Gz variant the bytes the decoder has read from its input are
\* a prefix of the content of the source: the 11 snapshot bytes, then the
\* bytes the source yielded after them, none dropped and none twice.
C7_DecoderInput ==
    state = "Gz" =>
        /\ rr.size = 11 /\ rr.preread = Take(input, 11)
        /\ srcPos >= 11
        /\ Len(pulled) = rr.pos + (srcPos - 11)
        /\ pulled = Take(input, Len(pulled))

C7_Witness ==
    /\ state = "Gz" /\ deof /\ Len(input) > SniffLen
    /\ pulled = input /\ rr.pos = rr.size

\* C8: an input of exactly 11 bytes with the magic bytes and method 0x08 is
\* classified Gz and a call with a buffer that is not empty returns an
\* error; in the Gz variant a decompression error leaves the variant Gz and
\* the caller only ever receives bytes the decoder produced.
C8_TruncatedGzip ==
    /\ (hist.classified /\ Len(input) = 11
            /\ input[1] = 31 /\ input[2] = 139 /\ input[3] = 8) =>
          /\ state = "Gz"
          /\ out = <<>>
          /\ (pc = "idle" /\ ret.len > 0) =>
                (ret.t = "err" /\ ret.via \in {"dec", "gz"})
    /\ (pc = "idle" /\ ret.via = "dec") => state = "Gz"
    /\ state = "Gz" => out = Take(DecOutput(pulled), dpos)

C8_Witness ==
    /\ Len(input) = 11 /\ input[1] = 31 /\ input[2] = 139 /\ input[3] = 8
    /\ state = "Gz" /\ pc = "idle" /\ hist.calls = 2
    /\ ret.t = "err" /\ ret.via = "dec" /\ out = <<>>

\* C9: however the source splits its content into reads, once make_reader
\* has returned the snapshot is the first min(11, length) bytes of the
\* content and the variant is the one the content calls for; when every
\* read of the look-ahead returned one byte, it made exactly 11 reads.
C9_ChunkingIndependent ==
    hist.classified =>
        /\ nread = Min(11, Len(input))
        /\ \A i \in 1..11 : buf[i] = (IF i <= nread THEN input[i] ELSE 0)
        /\ state = ExpectedVariant(input)
        /\ (hist.unit /\ hist.calls = 0 /\ pulled = <<>>) => ucalls = 11

C9_Witness ==
    /\ hist.classified /\ hist.unit /\ hist.calls = 0 /\ pulled = <<>>
    /\ state = "Gz" /\ ucalls = 11 /\ Len(input) > SniffLen

\* C10: outside the look-ahead, a variant other than Init never changes,
\* whatever a call returns, and the look-ahead is never entered again.
C10_TerminalAbsorbing ==
    [][(pc # "sniff" /\ state # "Init") => (state' = state /\ pc' # "sniff")]_vars

C10_Witness ==
    /\ state = "Raw" /\ pc = "idle" /\ hist.calls = 2
    /\ ret.t = "err" /\ ret.via = "raw"

\* C11: a RawReader::read entered with pos < size and a buffer of L bytes
\* returns Ok(min(size - pos, L)), gives exactly the snapshot bytes from pos
\* on, advances pos by that count, and makes no read of the underlying
\* source (its position, the count of its reads and of its errors are
\* unchanged); likewise when the caller is the decoder.
C11_SnapshotRead ==
    [][ /\ (pc = "read" /\ state = "Raw" /\ rr.pos < rr.size) =>
             LET n == Min(rr.size - rr.pos, reqL) IN
             /\ pc' = "idle" /\ ret'.t = "ok" /\ ret'.n = n
             /\ out' = out \o SubSeq(rr.preread, rr.pos + 1, rr.pos + n)
             /\ rr' = [rr EXCEPT !.pos = rr.pos + n]
             /\ srcPos' = srcPos /\ ucalls' = ucalls /\ errs' = errs
        /\ (pc = "read" /\ state = "Gz" /\ rr.pos < rr.size /\ pulled' # pulled) =>
             \E m \in PullLens :
                LET n == Min(rr.size - rr.pos, m) IN
                /\ pulled' = pulled \o SubSeq(rr.preread, rr.pos + 1, rr.pos + n)
                /\ rr' = [rr EXCEPT !.pos = rr.pos + n]
                /\ srcPos' = srcPos /\ ucalls' = ucalls /\ errs' = errs
      ]_vars

C11_Witness ==
    /\ state = "Raw" /\ pc = "idle" /\ hist.calls = 2
    /\ ret.t = "ok" /\ ret.via = "raw" /\ ret.len = 3 /\ ret.n = 3
    /\ rr.pos = 6 /\ rr.size = 11 /\ ucalls = 0 /\ srcPos = 11
    /\ out = Take(input, 6)

\* C12: in the Raw variant, whatever the calls and their buffer lengths (0
\* included) and whatever errors the source raised after the look-ahead,
\* what the caller has received is the first pos snapshot bytes followed by
\* every byte the source has yielded since the look-ahead: a prefix of the
\* content, as long as everything taken from the source so far once the
\* snapshot is replayed, and nothing is taken from the source while the
\* snapshot still has bytes.
C12_RawDelivery ==
    state = "Raw" =>
        /\ Take(rr.preread, rr.size) = Take(input, rr.size)
        /\ srcPos >= rr.size
        /\ rr.pos < rr.size => srcPos = rr.size
        /\ Len(out) = rr.pos + (srcPos - rr.size)
        /\ out = Take(input, Len(out))

C12_Witness ==
    /\ state = "Raw" /\ pc = "idle" /\ Len(input) > SniffLen
    /\ errs = 1 /\ ~hist.sniffErr
    /\ ret.t = "ok" /\ ret.n = 0 /\ ret.len > 0
    /\ out = input /\ srcPos = Len(input)

\* C13: every RawReader that exists (of the Raw and of the Gz variant) has
\* 0 <= pos <= size <= 11, so the assertions of RawReader::new and
\* RawReader::read hold, and a step that hands snapshot bytes to the caller
\* or to the decoder hands the bytes of indices pos..pos', with pos' <= size.
C13_RawReaderBounds ==
    /\ [](state \in {"Raw", "Gz"} =>
            (0 <= rr.pos /\ rr.pos <= rr.size /\ rr.size <= 11
                /\ Len(rr.preread) = 11))
    /\ [][ /\ (state = "Raw" /\ rr' # rr) =>
                (rr'.pos <= rr.size
                    /\ out' = out \o SubSeq(rr.preread, rr.pos + 1, rr'.pos))
           /\ (state = "Gz" /\ rr' # rr) =>
                (rr'.pos <= rr.size
                    /\ pulled' = pulled \o SubSeq(rr.preread, rr.pos + 1, rr'.pos))
         ]_vars

C13_Witness ==
    /\ state = "Raw" /\ pc = "idle" /\ rr.size = 4 /\ rr.pos = 4
    /\ ret.len = 12 /\ ret.n = 4 /\ hist.calls = 1
    /\ out = Take(rr.preread, 4) /\ rr.preread[5] = 0

\* C14: a RawReader::read of the Raw variant entered with pos = size makes
\* one read of the underlying source with the caller's buffer and returns
\* what it returns: an error, with nothing delivered, or a count with the
\* bytes the source yielded; either way the variant, pos and size are as
\* before, so that the next call forwards again.
C14_ForwardAfterSnapshot ==
    [][ (pc = "read" /\ state = "Raw" /\ rr.pos = rr.size) =>
          /\ pc' = "idle" /\ state' = "Raw" /\ rr' = rr
          /\ ucalls' = ucalls + 1
          /\ \/ /\ ret'.t = "err" /\ ret'.e = hist'.srcErr
                /\ errs' = errs + 1 /\ srcPos' = srcPos /\ out' = out
             \/ /\ ret'.t = "ok" /\ ret'.e = "none" /\ ret'.n = srcPos' - srcPos
                /\ ret'.n <= reqL
                /\ errs' = errs
                /\ out' = out \o SubSeq(input, srcPos + 1, srcPos')
      ]_vars

C14_Witness ==
    /\ state = "Raw" /\ pc = "idle" /\ rr.pos = rr.size
    /\ errs = 1 /\ ~hist.sniffErr
    /\ ret.t = "ok" /\ ret.n > 0 /\ ucalls = 1
    /\ srcPos > rr.size /\ out = Take(input, srcPos)

\* C15: a read of the look-ahead that returns an error ends the call at
\* once: the call returns that same error, no further read of the source is
\* made in it, and the caller receives none of the bytes accumulated.
C15_LookaheadError ==
    [][ (pc = "sniff" /\ errs' # errs) =>
          /\ pc' = "idle"
          /\ ret'.t = "err" /\ ret'.n = 0 /\ ret'.via = "sniff"
          /\ ret'.e = hist'.srcErr /\ ret'.e \in SrcErrors
          /\ ucalls' = ucalls + 1
          /\ srcPos' = srcPos /\ out' = out /\ out = <<>>
      ]_vars

C15_Witness ==
    /\ pc = "idle" /\ ret.t = "err" /\ ret.via = "sniff" /\ hist.calls = 1
    /\ ret.e = "Interrupted" /\ nread = 5 /\ srcPos = 5 /\ ucalls = 3 /\ out = <<>>

\* C16: while the look-ahead runs, fewer than 11 bytes are accumulated, so
\* its next request is not empty, and every read made so far returned at
\* least one byte; when it ends, by a variant or by an error, it has made
\* at most 11 reads of the source, has n <= 11 bytes, and the source stands
\* exactly after those n bytes.
C16_LookaheadBounded ==
    /\ pc = "sniff" =>
         (nread < 11 /\ ucalls <= nread /\ ucalls < 11 /\ srcPos = nread)
    /\ (hist.classified /\ hist.calls = 0 /\ pulled = <<>>) =>
         (ucalls <= 11 /\ ucalls >= 1 /\ nread <= 11 /\ srcPos = nread
            /\ Take(buf, nread) = Take(input, nread))
    /\ (hist.sniffErr /\ hist.calls = 1 /\ pc = "idle") =>
         (ucalls <= 11 /\ nread < 11 /\ srcPos = nread)

C16_Witness ==
    /\ hist.classified /\ hist.calls = 0 /\ pulled = <<>>
    /\ ucalls = 11 /\ nread = 10 /\ srcPos = 10 /\ Len(input) = 10

\* C17: the look-ahead is entered only from an idle reader whose variant is
\* Init, at most once in a call; when make_reader returns, the variant is
\* not Init, so the read that follows takes the Zero, Raw or Gz arm.
C17_OneAttempt ==
    /\ [](pc = "read" => state # "Init")
    /\ [][ /\ (pc # "sniff" /\ pc' = "sniff") => (pc = "idle" /\ state = "Init")
           /\ pc = "read" => pc' # "sniff"
           /\ (pc = "sniff" /\ pc' = "read") =>
                (state' \in {"Zero", "Raw", "Gz"} /\ hist'.classified)
         ]_vars

C17_Witness ==
    /\ pc = "read" /\ hist.calls = 0 /\ hist.classified
    /\ state = "Raw" /\ rr.pos = 0 /\ ucalls >= 1

\* C18: the first call on a stream classified Raw, with a buffer of L
\* bytes, returns exactly min(n, L) bytes, n <= 11 being the bytes of the
\* look-ahead: the first bytes of the content, never more than 11, with
\* the source read no further than the look-ahead; for L = 0 it returns 0
\* and the snapshot keeps all n bytes for the calls that follow.
C18_FirstRawRead ==
    (state = "Raw" /\ pc = "idle" /\ hist.calls = 1) =>
        /\ ret.t = "ok" /\ ret.n = Min(nread, ret.len) /\ ret.n <= 11
        /\ out = Take(input, ret.n)
        /\ srcPos = nread /\ nread = Min(11, Len(input))
        /\ rr.pos = ret.n /\ rr.size = nread
        /\ Take(rr.preread, nread) = Take(input, nread)

C18_Witness ==
    /\ state = "Raw" /\ pc = "idle" /\ hist.calls = 1
    /\ ret.len = 12 /\ ret.n = 11 /\ Len(input) > 11 /\ srcPos = 11

\* ------------------------------------------------------------------ typing
TypeOK ==
    /\ state \in {"Init", "Zero", "Raw", "Gz"}
    /\ pc \in {"idle", "sniff", "read"}
    /\ srcPos \in 0..Len(input)
    /\ rr.pos \in 0..SniffLen /\ rr.size \in 0..SniffLen
    /\ nread \in 0..SniffLen
====
